---- MODULE Spec2Model ----
(***************************************************************************)
(* The incremental index lifecycle of hygrep's SemanticIndex               *)
(* (src/src/hygrep/semantic.py): the manifest document, the vector store,  *)
(* index() and update(), with extraction failures, embed/store failures    *)
(* and interrupted runs; the read-only calls, search() and clear(); and    *)
(* the commands of the CLI (src/src/hygrep/cli_v2.py); and two runs of     *)
(* index() or update() against one root, step by step.                     *)
(*                                                                         *)
(* A call of index() or update() is one action, followed by the return of  *)
(* its result to the caller.  Its inputs are the file set and the place    *)
(* where the run stops: failAt = k makes the k-th                          *)
(* external effect of the call (db.delete, embed, db.set, manifest write)  *)
(* raise instead of happening, which is also what an interruption just     *)
(* before that effect leaves on disk; failAt = 0 lets the call run to its  *)
(* end.                                                                    *)
(*                                                                         *)
(* Abstractions: a file content is a number that decides what the          *)
(* extractor returns for it; the truncated SHA-256 is taken to be          *)
(* collision-free on these contents; a block id "path:line:name" is the    *)
(* triple <<path, line, name>> (no path or name contains a colon that      *)
(* would make two triples print alike); files are visited in ascending     *)
(* path order.                                                             *)
(***************************************************************************)
EXTENDS Integers, Sequences, FiniteSets, TLC

\* Bounds of the model.
MaxContent == 3
BatchSize == 2
MaxFail == 4
MaxK == 2
Resolution == 2

\* The paths of the root: two files.
Paths == {1, 2}
Contents == 0..MaxContent
FailPoints == 0..MaxFail

\* The queries of search(), and its k.
Queries == {1, 2}
Ks == 0..MaxK

\* A cosine distance is a number of steps of 1/Resolution, from 0 to 2.0;
\* a score is a number of steps of 1/(2 * Resolution), from 0 to 1.0.
MaxDistance == 2 * Resolution
Distances == 0..MaxDistance
One == 2 * Resolution

\* The -t thresholds of the CLI, in steps of the score: below 0, 0, 0.5
\* and 1.0.
Thresholds == {-1, 0, Resolution, One}

\* files: dict[str, str], every mapping of some paths to contents.
FileSets == UNION {[S -> Contents] : S \in SUBSET Paths}

Min(a, b) == IF a <= b THEN a ELSE b

\* The keys of a dict in iteration order (ascending paths).
RECURSIVE Keys(_)
Keys(S) ==
  IF S = {} THEN <<>>
  ELSE LET p == CHOOSE x \in S : \A y \in S : x <= y
       IN <<p>> \o Keys(S \ {p})

Range(s) == {s[i] : i \in DOMAIN s}

(***************************************************************************)
(* Collaborators.                                                          *)
(***************************************************************************)

Block(type, name, start_line) ==
  [type |-> type, name |-> name, start_line |-> start_line]

\* A content for which the extractor returns a block followed by a dict
\* that has no "name" key.
Malformed == MaxContent + 3

\* extractor.extract(file_path, query="", content=content): a list of
\* blocks, or an exception (ok = FALSE).
Extract(file_path, content) ==
  CASE content = 0 -> [ok |-> TRUE, blocks |-> <<>>]
    [] content = 1 -> [ok |-> TRUE, blocks |-> <<Block("function", "f", 1)>>]
    [] content = 2 -> [ok |-> TRUE,
                       blocks |-> <<Block("function", "f", 1),
                                    Block("function", "g", 2)>>]
    [] content = 3 -> [ok |-> FALSE, blocks |-> <<>>]
    [] content = 4 -> [ok |-> TRUE, blocks |-> <<Block("function", "f", 2)>>]
    [] content = Malformed ->
         [ok |-> TRUE,
          blocks |-> <<Block("function", "f", 1),
                       [type |-> "function", start_line |-> 2]>>]
    [] OTHER -> [ok |-> TRUE,
                 blocks |-> <<Block("function", "f", 1),
                              Block("function", "f", 1)>>]

\* hashlib.sha256(content.encode()).hexdigest()[:16]
FileHash(content) == <<"sha256", content>>

\* dict.get("hash") of an entry that has none.
None == <<>>

\* f"{file_path}:{block['start_line']}:{block['name']}"
BlockId(file_path, block) == <<file_path, block.start_line, block.name>>

\* Lines 123 and 131: block['start_line'], block['name'] and block['type']
\* raise KeyError on a dict without the key.
HasKeys(block) == {"type", "name", "start_line"} \subseteq DOMAIN block

\* The blocks the loop of lines 122-133 goes through before it raises: all
\* of them when every block has its keys.
Derivable(blocks) ==
  LET bad == {j \in DOMAIN blocks : ~HasKeys(blocks[j])}
  IN IF bad = {} THEN blocks
     ELSE SubSeq(blocks, 1, (CHOOSE j \in bad : \A k \in bad : j <= k) - 1)

(***************************************************************************)
(* The manifest document.                                                  *)
(***************************************************************************)

\* A v1 value is the bare hash string, a v2 value {"hash": .., "blocks": ..}.
V1(hash) == [v1 |-> hash]
V2(hash, blocks) == [hash |-> hash, blocks |-> blocks]
IsStr(value) == DOMAIN value = {"v1"}

NoManifest == [kind |-> "absent", files |-> <<>>]
Corrupted == [kind |-> "corrupt", files |-> <<>>]
Document(files) == [kind |-> "json", files |-> files]

\* _load_manifest with a slip: every entry is rebuilt from its hash, the
\* block ids of a v2 entry are lost.
LoadManifestForgettingBlocks(doc) ==
  CASE doc.kind = "absent" -> [ok |-> TRUE, files |-> <<>>]
    [] doc.kind = "corrupt" -> [ok |-> FALSE, files |-> <<>>]
    [] OTHER ->
         [ok |-> TRUE,
          files |-> [p \in DOMAIN doc.files |->
                       IF IsStr(doc.files[p])
                       THEN V2(doc.files[p].v1, <<>>)
                       ELSE V2(doc.files[p].hash, <<>>)]]

\* _load_manifest: ok = FALSE when json.loads raises.
LoadManifest(doc) ==
  CASE doc.kind = "absent" -> [ok |-> TRUE, files |-> <<>>]
    [] doc.kind = "corrupt" -> [ok |-> FALSE, files |-> <<>>]
    [] OTHER ->
         [ok |-> TRUE,
          files |-> [p \in DOMAIN doc.files |->
                       IF IsStr(doc.files[p])
                       THEN V2(doc.files[p].v1, <<>>)
                       ELSE doc.files[p]]]

\* manifest["files"].get(file_path, {}) with .get("hash") and .get("blocks", [])
EntryHash(files, p) == IF p \in DOMAIN files THEN files[p].hash ELSE None
EntryBlocks(files, p) == IF p \in DOMAIN files THEN files[p].blocks ELSE <<>>

(***************************************************************************)
(* One run of a call: the disk and the instance as the call sees them,     *)
(* the external effects so far (trace), and fuel, the number of effects    *)
(* left before the run stops (0: it never stops).                          *)
(***************************************************************************)

Event(op, ids, ok) == [op |-> op, ids |-> ids, ok |-> ok]

\* An external effect that raises (or before which the run is interrupted).
Raise(m, op, ids) ==
  [m EXCEPT !.raised = TRUE, !.trace = Append(@, Event(op, ids, FALSE))]

Done(m, op, ids) ==
  [m EXCEPT !.trace = Append(@, Event(op, ids, TRUE)),
            !.fuel = IF @ > 1 THEN @ - 1 ELSE @]

\* _ensure_db
EnsureDb(m) ==
  IF m.db_open THEN m
  ELSE [m EXCEPT !.index_dir = TRUE, !.db_open = TRUE,
                 !.trace = Append(@, Event("open", <<>>, TRUE))]

\* db.delete(ids): ids that are not stored are ignored.
DbDelete(m, ids) ==
  IF m.fuel = 1 THEN Raise(m, "delete", ids)
  ELSE Done([m EXCEPT !.vectors =
                 [id \in DOMAIN m.vectors \ Range(ids) |-> m.vectors[id]]],
            "delete", ids)

\* self.embedder.embed(texts), one text per block of the batch.
Embed(m, batch) ==
  IF m.fuel = 1 THEN Raise(m, "embed", [j \in DOMAIN batch |-> batch[j].id])
  ELSE Done(m, "embed", [j \in DOMAIN batch |-> batch[j].id])

\* The metadata of the item index() builds for a staged block.
Metadata(block_info) ==
  [file |-> block_info.file,
   type |-> block_info.block.type,
   name |-> block_info.block.name,
   start_line |-> block_info.block.start_line]

\* db.set(items): an upsert, a later item of the same id replaces an earlier.
DbSet(m, batch) ==
  LET ids == [j \in DOMAIN batch |-> batch[j].id]
      lastOf(id) == CHOOSE j \in DOMAIN batch :
                      /\ batch[j].id = id
                      /\ \A k \in DOMAIN batch : batch[k].id = id => k <= j
  IN IF m.fuel = 1 THEN Raise(m, "set", ids)
     ELSE Done([m EXCEPT !.vectors =
                   [id \in DOMAIN m.vectors \cup Range(ids) |->
                      IF id \in Range(ids) THEN Metadata(batch[lastOf(id)])
                      ELSE m.vectors[id]]],
               "set", ids)

\* _save_manifest: the whole manifest is written in the v2 form.
\* write_text creates no directory: without the index directory it raises.
SaveManifest(m, files) ==
  IF m.fuel = 1 \/ ~m.index_dir THEN Raise(m, "save", <<>>)
  ELSE Done([m EXCEPT !.manifest_file = Document(files)], "save", <<>>)

(***************************************************************************)
(* index()                                                                 *)
(***************************************************************************)

ZeroStats == [files |-> 0, blocks |-> 0, skipped |-> 0, errors |-> 0, deleted |-> 0]

\* Lines 121-133: the ids and the staged entries of a file's blocks.
NewBlockIds(file_path, blocks) ==
  [j \in DOMAIN blocks |-> BlockId(file_path, blocks[j])]

Staged(file_path, file_hash, blocks) ==
  [j \in DOMAIN blocks |->
     [id |-> BlockId(file_path, blocks[j]), file |-> file_path,
      file_hash |-> file_hash, block |-> blocks[j]]]

\* Line 108: the file is unchanged.
SkipFile(manifest, file_path, file_hash) ==
  EntryHash(manifest, file_path) = file_hash

\* ScanFiles with a slip: an extraction failure ends the loop (break for
\* continue).
RECURSIVE ScanFilesStoppingAtError(_, _, _, _)
ScanFilesStoppingAtError(s, manifest, files, todo) ==
  IF todo = <<>> \/ s.m.raised THEN s
  ELSE
    LET file_path == Head(todo)
        content == files[file_path]
        file_hash == FileHash(content)
        old_blocks == EntryBlocks(manifest, file_path)
        m1 == IF old_blocks # <<>> THEN DbDelete(s.m, old_blocks) ELSE s.m
        s1 == [s EXCEPT !.m = m1, !.stats.deleted = @ + Len(old_blocks)]
        ex == Extract(file_path, content)
    IN IF SkipFile(manifest, file_path, file_hash)
       THEN ScanFilesStoppingAtError([s EXCEPT !.stats.skipped = @ + 1],
                                     manifest, files, Tail(todo))
       ELSE IF m1.raised THEN [s EXCEPT !.m = m1]
       ELSE IF ex.ok
       THEN ScanFilesStoppingAtError(
              [s1 EXCEPT
                 !.all_blocks = @ \o Staged(file_path, file_hash, ex.blocks),
                 !.files_to_update =
                    [p \in DOMAIN @ \cup {file_path} |->
                       IF p = file_path
                       THEN V2(file_hash, NewBlockIds(file_path, ex.blocks))
                       ELSE @[p]],
                 !.stats.files = @ + 1],
              manifest, files, Tail(todo))
       ELSE [s1 EXCEPT !.stats.errors = @ + 1]

\* Lines 121-138 for the blocks the extractor returned: all_blocks.append
\* (line 125) runs block by block inside the try, so the blocks staged
\* (derived) before a block raises stay staged and the path is counted in
\* errors; with every id derived the path gets its pending entry and is
\* counted in files.
StageBlocks(s1, file_path, file_hash, blocks, derived) ==
  IF derived # blocks
  THEN [s1 EXCEPT
          !.all_blocks = @ \o Staged(file_path, file_hash, derived),
          !.stats.errors = @ + 1]
  ELSE [s1 EXCEPT
          !.all_blocks = @ \o Staged(file_path, file_hash, blocks),
          !.files_to_update =
             [p \in DOMAIN @ \cup {file_path} |->
                IF p = file_path
                THEN V2(file_hash, NewBlockIds(file_path, blocks))
                ELSE @[p]],
          !.stats.files = @ + 1]

\* Lines 103-138: the loop over files.items(); s holds the run, all_blocks,
\* files_to_update and stats.
RECURSIVE ScanFiles(_, _, _, _)
ScanFiles(s, manifest, files, todo) ==
  IF todo = <<>> \/ s.m.raised THEN s
  ELSE
    LET file_path == Head(todo)
        content == files[file_path]
        file_hash == FileHash(content)
        old_blocks == EntryBlocks(manifest, file_path)
        m1 == IF old_blocks # <<>> THEN DbDelete(s.m, old_blocks) ELSE s.m
        s1 == [s EXCEPT !.m = m1, !.stats.deleted = @ + Len(old_blocks)]
        ex == Extract(file_path, content)
    IN IF SkipFile(manifest, file_path, file_hash)
       THEN ScanFiles([s EXCEPT !.stats.skipped = @ + 1], manifest, files, Tail(todo))
       ELSE IF m1.raised THEN [s EXCEPT !.m = m1]
       ELSE IF ex.ok
       THEN ScanFiles(StageBlocks(s1, file_path, file_hash, ex.blocks,
                                  Derivable(ex.blocks)),
                      manifest, files, Tail(todo))
       ELSE ScanFiles([s1 EXCEPT !.stats.errors = @ + 1], manifest, files, Tail(todo))

\* EmbedAndStore with a slip: a batch whose embed or upsert raises is
\* dropped and the loop goes on with the next batch.
RECURSIVE EmbedAndStoreSkippingFailed(_, _, _)
EmbedAndStoreSkippingFailed(s, all_blocks, i) ==
  IF i >= Len(all_blocks) THEN s
  ELSE
    LET batch == SubSeq(all_blocks, i + 1, Min(i + BatchSize, Len(all_blocks)))
        m1 == Embed(s.m, batch)
        m2 == IF m1.raised THEN m1 ELSE DbSet(m1, batch)
    IN IF m2.raised
       THEN EmbedAndStoreSkippingFailed(
              [s EXCEPT !.m = [m2 EXCEPT !.raised = FALSE, !.fuel = 0]],
              all_blocks, i + BatchSize)
       ELSE EmbedAndStoreSkippingFailed(
              [s EXCEPT !.m = m2, !.stats.blocks = @ + Len(batch)],
              all_blocks, i + BatchSize)

\* EmbedAndStore with a slip: everything staged is embedded and stored as
\* one batch, whatever the batch size.
EmbedAndStoreInOneBatch(s, all_blocks, i) ==
  LET m1 == Embed(s.m, all_blocks)
      m2 == IF m1.raised THEN m1 ELSE DbSet(m1, all_blocks)
  IN IF all_blocks = <<>> \/ s.m.raised THEN s
     ELSE IF m2.raised THEN [s EXCEPT !.m = m2]
     ELSE [s EXCEPT !.m = m2, !.stats.blocks = @ + Len(all_blocks)]

\* EmbedAndStore with a slip: blocks counts the batches, not their blocks.
RECURSIVE EmbedAndStoreCountingBatches(_, _, _)
EmbedAndStoreCountingBatches(s, all_blocks, i) ==
  IF i >= Len(all_blocks) \/ s.m.raised THEN s
  ELSE
    LET batch == SubSeq(all_blocks, i + 1, Min(i + BatchSize, Len(all_blocks)))
        m1 == Embed(s.m, batch)
        m2 == IF m1.raised THEN m1 ELSE DbSet(m1, batch)
    IN IF m2.raised THEN [s EXCEPT !.m = m2]
       ELSE EmbedAndStoreCountingBatches(
              [s EXCEPT !.m = m2, !.stats.blocks = @ + 1], all_blocks, i + BatchSize)

\* Lines 145-174: embed and store batch by batch; i is the 0-based offset.
RECURSIVE EmbedAndStore(_, _, _)
EmbedAndStore(s, all_blocks, i) ==
  IF i >= Len(all_blocks) \/ s.m.raised THEN s
  ELSE
    LET batch == SubSeq(all_blocks, i + 1, Min(i + BatchSize, Len(all_blocks)))
        m1 == Embed(s.m, batch)
        m2 == IF m1.raised THEN m1 ELSE DbSet(m1, batch)
    IN IF m2.raised THEN [s EXCEPT !.m = m2]
       ELSE EmbedAndStore([s EXCEPT !.m = m2, !.stats.blocks = @ + Len(batch)],
                          all_blocks, i + BatchSize)

\* MergeEntries with a slip: the manifest becomes the pending entries alone.
MergeEntriesForgettingOthers(manifest, files_to_update) == files_to_update

\* Lines 177-178: the pending entries replace the manifest's.
MergeEntries(manifest, files_to_update) ==
  [p \in DOMAIN manifest \cup DOMAIN files_to_update |->
     IF p \in DOMAIN files_to_update THEN files_to_update[p] ELSE manifest[p]]

\* Line 140: nothing staged, index() returns before the manifest is saved.
NothingStaged(all_blocks) == all_blocks = <<>>

\* index() with a slip: the manifest is written before the batches are
\* embedded and stored.
IndexSavingFirst(m0, files) ==
  LET m1 == EnsureDb(m0)
      ld == LoadManifest(m1.manifest_file)
      s0 == [m |-> m1, all_blocks |-> <<>>, files_to_update |-> <<>>,
             stats |-> ZeroStats]
      s1 == ScanFiles(s0, ld.files, files, Keys(DOMAIN files))
      m2 == SaveManifest(s1.m, MergeEntries(ld.files, s1.files_to_update))
      s2 == EmbedAndStore([s1 EXCEPT !.m = m2], s1.all_blocks, 0)
  IN IF ~ld.ok THEN [m |-> Raise(m1, "load", <<>>), stats |-> ZeroStats]
     ELSE IF s1.m.raised \/ NothingStaged(s1.all_blocks)
     THEN [m |-> s1.m, stats |-> s1.stats]
     ELSE [m |-> s2.m, stats |-> s2.stats]

\* index(files): the run at its end and the stats it returns.
Index(m0, files) ==
  LET m1 == EnsureDb(m0)
      ld == LoadManifest(m1.manifest_file)
      s0 == [m |-> m1, all_blocks |-> <<>>, files_to_update |-> <<>>,
             stats |-> ZeroStats]
      s1 == ScanFiles(s0, ld.files, files, Keys(DOMAIN files))
      s2 == EmbedAndStore(s1, s1.all_blocks, 0)
      m3 == SaveManifest(s2.m, MergeEntries(ld.files, s1.files_to_update))
  IN IF ~ld.ok THEN [m |-> Raise(m1, "load", <<>>), stats |-> ZeroStats]
     ELSE IF s1.m.raised \/ NothingStaged(s1.all_blocks)
     THEN [m |-> s1.m, stats |-> s1.stats]
     ELSE IF s2.m.raised THEN [m |-> s2.m, stats |-> s2.stats]
     ELSE [m |-> m3, stats |-> s2.stats]

(***************************************************************************)
(* get_stale_files(), needs_update(), update()                             *)
(***************************************************************************)

\* Changed with a slip: a path with no manifest entry is not reported.
ChangedIgnoringAbsent(manifest, files) ==
  LET stale(p) == p \in DOMAIN manifest /\ manifest[p].hash # FileHash(files[p])
  IN SelectSeq(Keys(DOMAIN files), stale)

\* Lines 243-249: the paths of files whose stored hash differs.
Changed(manifest, files) ==
  LET stale(p) == EntryHash(manifest, p) # FileHash(files[p])
  IN SelectSeq(Keys(DOMAIN files), stale)

\* Lines 252-253: the manifest's paths that are not in files.
Deleted(manifest, files) ==
  LET gone(p) == p \notin DOMAIN files
  IN SelectSeq(Keys(DOMAIN manifest), gone)

\* get_stale_files(files) on a manifest document that loads.
GetStaleFiles(doc, files) ==
  LET ld == LoadManifest(doc)
  IN [ok |-> ld.ok,
      changed |-> IF ld.ok THEN Changed(ld.files, files) ELSE <<>>,
      deleted |-> IF ld.ok THEN Deleted(ld.files, files) ELSE <<>>]

\* needs_update(files); -1 stands for the exception of a failed load.
NeedsUpdate(doc, files) ==
  LET st == GetStaleFiles(doc, files)
  IN IF st.ok THEN Len(st.changed) + Len(st.deleted) ELSE -1

\* DeleteFiles with a slip: the manifest is saved after every deleted file.
RECURSIVE DeleteFilesSavingEach(_, _)
DeleteFilesSavingEach(d, todo) ==
  IF todo = <<>> \/ d.m.raised THEN d
  ELSE
    LET f == Head(todo)
        old_blocks == EntryBlocks(d.manifest, f)
        m1 == IF old_blocks # <<>> THEN DbDelete(d.m, old_blocks) ELSE d.m
        manifest == [p \in DOMAIN d.manifest \ {f} |-> d.manifest[p]]
        m2 == IF m1.raised THEN m1 ELSE SaveManifest(m1, manifest)
    IN IF m2.raised THEN [d EXCEPT !.m = m2]
       ELSE DeleteFilesSavingEach(
              [m |-> m2, manifest |-> manifest,
               deleted_count |-> d.deleted_count + Len(old_blocks)],
              Tail(todo))

\* Lines 287-293: delete the vectors of the deleted files and drop their
\* manifest entries; d holds the run, the manifest and deleted_count.
RECURSIVE DeleteFiles(_, _)
DeleteFiles(d, todo) ==
  IF todo = <<>> \/ d.m.raised THEN d
  ELSE
    LET f == Head(todo)
        old_blocks == EntryBlocks(d.manifest, f)
        m1 == IF old_blocks # <<>> THEN DbDelete(d.m, old_blocks) ELSE d.m
    IN IF m1.raised THEN [d EXCEPT !.m = m1]
       ELSE DeleteFiles(
              [m |-> m1,
               manifest |-> [p \in DOMAIN d.manifest \ {f} |-> d.manifest[p]],
               deleted_count |-> d.deleted_count + Len(old_blocks)],
              Tail(todo))

\* Line 279: the stats of an update() that found nothing stale.
NothingStale(files) ==
  [files |-> 0, blocks |-> 0, deleted |-> 0, skipped |-> Cardinality(DOMAIN files)]

\* update() with a slip: the store is opened before the stale files are
\* looked at.
UpdateOpeningFirst(m0, files) ==
  LET st == GetStaleFiles(m0.manifest_file, files)
      m1 == EnsureDb(m0)
      ld == LoadManifest(m1.manifest_file)
      d == DeleteFiles([m |-> m1, manifest |-> ld.files, deleted_count |-> 0],
                       st.deleted)
      m2 == IF st.deleted # <<>> /\ ~d.m.raised
            THEN SaveManifest(d.m, d.manifest) ELSE d.m
      changed_files == [p \in Range(st.changed) \cap DOMAIN files |-> files[p]]
      r == Index(m2, changed_files)
  IN IF ~st.ok THEN [m |-> Raise(m0, "load", <<>>), stats |-> ZeroStats]
     ELSE IF st.changed = <<>> /\ st.deleted = <<>>
     THEN [m |-> m1, stats |-> NothingStale(files)]
     ELSE IF m2.raised THEN [m |-> m2, stats |-> ZeroStats]
     ELSE IF r.m.raised THEN r
     ELSE [m |-> r.m, stats |-> [r.stats EXCEPT !.deleted = @ + d.deleted_count]]

\* update(files): the run at its end and the stats it returns.
Update(m0, files) ==
  LET st == GetStaleFiles(m0.manifest_file, files)
      m1 == EnsureDb(m0)
      ld == LoadManifest(m1.manifest_file)
      d == DeleteFiles([m |-> m1, manifest |-> ld.files, deleted_count |-> 0],
                       st.deleted)
      m2 == IF st.deleted # <<>> /\ ~d.m.raised
            THEN SaveManifest(d.m, d.manifest) ELSE d.m
      changed_files == [p \in Range(st.changed) \cap DOMAIN files |-> files[p]]
      r == Index(m2, changed_files)
  IN IF ~st.ok THEN [m |-> Raise(m0, "load", <<>>), stats |-> ZeroStats]
     ELSE IF st.changed = <<>> /\ st.deleted = <<>>
     THEN [m |-> m0, stats |-> NothingStale(files)]
     ELSE IF m2.raised THEN [m |-> m2, stats |-> ZeroStats]
     ELSE IF r.m.raised THEN r
     ELSE [m |-> r.m, stats |-> [r.stats EXCEPT !.deleted = @ + d.deleted_count]]

(***************************************************************************)
(* is_indexed(), count(), clear(), search()                                *)
(***************************************************************************)

\* is_indexed(): self.manifest_path.exists()
IsIndexed(doc) == doc.kind # "absent"

\* count() with a slip: the store is counted whether or not there is a
\* manifest.
CountingTheStore(m0) ==
  LET m1 == EnsureDb(m0)
  IN [m |-> Done(m1, "count", <<>>), result |-> Cardinality(DOMAIN m1.vectors)]

\* count(): 0 without a manifest, else db.count() of the opened store.
Count(m0) ==
  IF ~IsIndexed(m0.manifest_file) THEN [m |-> m0, result |-> 0]
  ELSE LET m1 == EnsureDb(m0)
       IN [m |-> Done(m1, "count", <<>>), result |-> Cardinality(DOMAIN m1.vectors)]

\* clear() with a slip: only the manifest file is removed.
ClearManifestOnly(m0) ==
  IF m0.index_dir
  THEN Done([m0 EXCEPT !.manifest_file = NoManifest], "rmtree", <<>>)
  ELSE m0

\* clear(): shutil.rmtree(self.index_dir) when it exists; self._db is kept.
Clear(m0) ==
  IF m0.index_dir
  THEN Done([m0 EXCEPT !.manifest_file = NoManifest, !.vectors = <<>>,
                       !.index_dir = FALSE],
            "rmtree", <<>>)
  ELSE m0

\* The distance the store computes between the embedding of a query and a
\* stored vector.
Distance(query, id) ==
  ((query - 1) + (id[2] - 1) * MaxDistance + (id[1] - 1)) % (MaxDistance + 1)

\* The order in which the store lists vectors of equal distance.
IdBefore(a, b) ==
  \/ a[1] < b[1]
  \/ a[1] = b[1] /\ a[2] < b[2]
  \/ a[1] = b[1] /\ a[2] = b[2] /\ a[3] = "f" /\ b[3] # "f"

\* db.search(embedding, k=k): the k nearest stored vectors, nearest first,
\* each with its id, distance and metadata.
RECURSIVE DbSearch(_, _, _)
DbSearch(vecs, query, k) ==
  IF k <= 0 \/ DOMAIN vecs = {} THEN <<>>
  ELSE LET nearer(a, b) ==
             \/ Distance(query, a) < Distance(query, b)
             \/ Distance(query, a) = Distance(query, b) /\ IdBefore(a, b)
           id == CHOOSE a \in DOMAIN vecs :
                   \A b \in DOMAIN vecs \ {a} : nearer(a, b)
       IN <<[id |-> id, distance |-> Distance(query, id), metadata |-> vecs[id]]>>
          \o DbSearch([b \in DOMAIN vecs \ {id} |-> vecs[b]], query, k - 1)

\* self.embedder.embed_one(query)
EmbedOne(m, query) ==
  IF m.fuel = 1 THEN Raise(m, "embed_one", <<>>) ELSE Done(m, "embed_one", <<>>)

\* The score with a slip: 2.0 - distance, not halved.
ScoreUnhalved(distance) == 2 * (2 * Resolution - distance)

\* (2.0 - distance) / 2.0, in steps of 1/(2 * Resolution).
Score(distance) == 2 * Resolution - distance

\* Lines 205-219: one output record per result of the store.
FormatResult(r) ==
  [file |-> r.metadata.file, type |-> r.metadata.type, name |-> r.metadata.name,
   line |-> r.metadata.start_line, score |-> Score(r.distance)]

\* A sequence back to front.
Reverse(seq) == [j \in DOMAIN seq |-> seq[Len(seq) + 1 - j]]

\* search() with a slip: the output lists the worst match first.
SearchWorstFirst(m0, query, k) ==
  LET m1 == EmbedOne(EnsureDb(m0), query)
      results == DbSearch(m1.vectors, query, k)
      m2 == IF m1.fuel = 1 THEN Raise(m1, "search", <<>>)
            ELSE Done(m1, "search", [j \in DOMAIN results |-> results[j].id])
  IN IF m1.raised THEN [m |-> m1, results |-> <<>>, result |-> <<>>]
     ELSE IF m2.raised THEN [m |-> m2, results |-> <<>>, result |-> <<>>]
     ELSE [m |-> m2, results |-> results,
           result |-> Reverse([j \in DOMAIN results |-> FormatResult(results[j])])]

\* search() with a slip: a root with no manifest gets an empty one.
SearchInitialisingManifest(m0, query, k) ==
  LET opened == EnsureDb(m0)
      m1 == EmbedOne(IF IsIndexed(opened.manifest_file) THEN opened
                     ELSE [opened EXCEPT !.manifest_file = Document(<<>>)],
                     query)
      results == DbSearch(m1.vectors, query, k)
      m2 == IF m1.fuel = 1 THEN Raise(m1, "search", <<>>)
            ELSE Done(m1, "search", [j \in DOMAIN results |-> results[j].id])
  IN IF m1.raised THEN [m |-> m1, results |-> <<>>, result |-> <<>>]
     ELSE IF m2.raised THEN [m |-> m2, results |-> <<>>, result |-> <<>>]
     ELSE [m |-> m2, results |-> results,
           result |-> [j \in DOMAIN results |-> FormatResult(results[j])]]

\* search(query, k): the run at its end, the store's results and the output.
Search(m0, query, k) ==
  LET m1 == EmbedOne(EnsureDb(m0), query)
      results == DbSearch(m1.vectors, query, k)
      m2 == IF m1.fuel = 1 THEN Raise(m1, "search", <<>>)
            ELSE Done(m1, "search", [j \in DOMAIN results |-> results[j].id])
  IN IF m1.raised THEN [m |-> m1, results |-> <<>>, result |-> <<>>]
     ELSE IF m2.raised THEN [m |-> m2, results |-> <<>>, result |-> <<>>]
     ELSE [m |-> m2, results |-> results,
           result |-> [j \in DOMAIN results |-> FormatResult(results[j])]]

(***************************************************************************)
(* The CLI (cli_v2.py).  A command is one process: every SemanticIndex it  *)
(* makes is a new instance, and an exception nothing catches ends it with  *)
(* a traceback.                                                            *)
(***************************************************************************)

EXIT_MATCH == 0
EXIT_NO_MATCH == 1
EXIT_ERROR == 2

\* How a command ends: with an exit code (typer.Exit() without a code, or
\* the return of the command, is 0) after the results it printed, or with
\* the traceback of an uncaught exception, for which the interpreter exits
\* with status 1.
Exit(m, code, message, output) ==
  [m |-> m, exit |-> code, uncaught |-> FALSE, message |-> message,
   output |-> output]
Traceback(m) ==
  [m |-> m, exit |-> 1, uncaught |-> TRUE, message |-> "traceback",
   output |-> <<>>]

\* SemanticIndex(root): a new instance, its store not opened.
NewEngine(m) == [m EXCEPT !.db_open = FALSE]

\* A step of a command, noted in the trace.
Mark(m, step) == [m EXCEPT !.trace = Append(@, Event(step, <<>>, TRUE))]

\* index_exists(root)
IndexExists(doc) == doc.kind # "absent"

\* build_index(root): nothing is built when the scan finds no file.
BuildIndex(m0, files) ==
  IF DOMAIN files = {} THEN m0
  ELSE Index(Mark(NewEngine(m0), "build_index"), files).m

\* semantic_search() with a slip: a result at the threshold is dropped.
SemanticSearchAboveOnly(m0, query, n, threshold) ==
  LET r == Search(NewEngine(m0), query, n)
      keep(x) == x.score > threshold
  IN [m |-> r.m, results |-> r.results, found |-> r.result,
      result |-> IF threshold > 0 THEN SelectSeq(r.result, keep) ELSE r.result]

\* semantic_search(query, root, n, threshold): found is what search()
\* returned, result what is left of it.
SemanticSearch(m0, query, n, threshold) ==
  LET r == Search(NewEngine(m0), query, n)
      keep(x) == x.score >= threshold
  IN [m |-> r.m, results |-> r.results, found |-> r.result,
      result |-> IF threshold > 0 THEN SelectSeq(r.result, keep) ELSE r.result]

\* grep_search(pattern, root): one result per block the extractor finds in
\* the files the scan matched, each with score 1.0.
GrepSearch(hits) ==
  [j \in 1..hits |-> [file |-> j, type |-> "text", name |-> "match", line |-> j,
                       score |-> One]]

\* Reconcile with a slip: --no-index is not looked at when the index is
\* missing.
ReconcileIgnoringNoIndex(m0, inv) ==
  LET exists == IndexExists(m0.manifest_file)
      stale_count == NeedsUpdate(m0.manifest_file, inv.files)
      engine == Mark(NewEngine(m0), "needs_update")
  IN IF ~exists
     THEN [m |-> BuildIndex(m0, inv.files), done |-> TRUE]
     ELSE IF inv.no_index THEN [m |-> m0, done |-> TRUE]
     ELSE IF stale_count < 0 THEN [m |-> Raise(engine, "load", <<>>), done |-> TRUE]
     ELSE IF stale_count > 0
     THEN [m |-> Update(Mark(engine, "update"), inv.files).m, done |-> TRUE]
     ELSE [m |-> engine, done |-> TRUE]

\* Lines 277-301: the index is built, or brought up to date, before the
\* search; done = FALSE when the command ends here.
Reconcile(m0, inv) ==
  LET exists == IndexExists(m0.manifest_file)
      stale_count == NeedsUpdate(m0.manifest_file, inv.files)
      engine == Mark(NewEngine(m0), "needs_update")
  IN IF ~exists
     THEN IF inv.no_index THEN [m |-> m0, done |-> FALSE]
          ELSE [m |-> BuildIndex(m0, inv.files), done |-> TRUE]
     ELSE IF inv.no_index THEN [m |-> m0, done |-> TRUE]
     ELSE IF stale_count < 0 THEN [m |-> Raise(engine, "load", <<>>), done |-> TRUE]
     ELSE IF stale_count > 0
     THEN [m |-> Update(Mark(engine, "update"), inv.files).m, done |-> TRUE]
     ELSE [m |-> engine, done |-> TRUE]

\* main() with a slip: the search runs before the index is built or brought
\* up to date.
MainSearchingFirst(m0, inv) ==
  LET results == GrepSearch(inv.hits)
      exists == IndexExists(m0.manifest_file)
      s == SemanticSearch(m0, inv.query, inv.n, inv.threshold)
      rec == Reconcile(s.m, inv)
  IN IF ~inv.path_exists THEN Exit(m0, EXIT_ERROR, "path does not exist", <<>>)
     ELSE IF inv.mode # "semantic"
     THEN IF results = <<>> THEN Exit(m0, EXIT_NO_MATCH, "no matches", <<>>)
          ELSE Exit(m0, EXIT_MATCH, "results",
                    SubSeq(results, 1, Min(inv.n, Len(results))))
     ELSE IF ~inv.omendb THEN Exit(m0, EXIT_ERROR, "omendb not installed", <<>>)
     ELSE IF ~exists /\ inv.no_index THEN Exit(m0, EXIT_ERROR, "no index found", <<>>)
     ELSE IF s.m.raised THEN Traceback(s.m)
     ELSE IF rec.m.raised THEN Traceback(rec.m)
     ELSE IF s.result = <<>> THEN Exit(rec.m, EXIT_NO_MATCH, "no results", <<>>)
     ELSE Exit(rec.m, EXIT_MATCH, "results", s.result)

\* main(): hhg <query> [path], with -n, -t, -e, -r and --no-index.
Main(m0, inv) ==
  LET results == GrepSearch(inv.hits)
      rec == Reconcile(m0, inv)
      s == SemanticSearch(rec.m, inv.query, inv.n, inv.threshold)
  IN IF ~inv.path_exists THEN Exit(m0, EXIT_ERROR, "path does not exist", <<>>)
     ELSE IF inv.mode # "semantic"
     THEN IF results = <<>> THEN Exit(m0, EXIT_NO_MATCH, "no matches", <<>>)
          ELSE Exit(m0, EXIT_MATCH, "results",
                    SubSeq(results, 1, Min(inv.n, Len(results))))
     ELSE IF ~inv.omendb THEN Exit(m0, EXIT_ERROR, "omendb not installed", <<>>)
     ELSE IF ~rec.done THEN Exit(m0, EXIT_ERROR, "no index found", <<>>)
     ELSE IF rec.m.raised THEN Traceback(rec.m)
     ELSE IF s.m.raised THEN Traceback(s.m)
     ELSE IF s.result = <<>> THEN Exit(s.m, EXIT_NO_MATCH, "no results", <<>>)
     ELSE Exit(s.m, EXIT_MATCH, "results", s.result)

\* hhg status [path]
Status(m0, inv) ==
  LET c == Count(NewEngine(m0))
  IN IF ~inv.omendb THEN Exit(m0, EXIT_ERROR, "omendb not installed", <<>>)
     ELSE IF ~IndexExists(m0.manifest_file) THEN Exit(m0, 0, "no index", <<>>)
     ELSE Exit(c.m, 0, "index", <<c.result>>)

\* hhg rebuild [path]
Rebuild(m0, inv) ==
  LET m1 == IF IndexExists(m0.manifest_file) THEN Clear(NewEngine(m0)) ELSE m0
      m2 == BuildIndex(m1, inv.files)
  IN IF ~inv.omendb THEN Exit(m0, EXIT_ERROR, "omendb not installed", <<>>)
     ELSE IF m2.raised THEN Traceback(m2)
     ELSE Exit(m2, 0, "rebuilt", <<>>)

\* hhg clean [path]
Clean(m0, inv) ==
  IF ~inv.omendb THEN Exit(m0, EXIT_ERROR, "omendb not installed", <<>>)
  ELSE IF ~IndexExists(m0.manifest_file) THEN Exit(m0, 0, "no index to delete", <<>>)
  ELSE Exit(Clear(NewEngine(m0)), 0, "index deleted", <<>>)

\* The -n, -t and query of a semantic query: the two best matches of a
\* query, no result asked for, and only a perfect match of another query.
QueryOptions == {<<MaxK, 0, 1>>, <<0, 0, 1>>, <<MaxK, One, 2>>}

\* The invocations of a command: what the command line and the directory
\* tree give it.  An input that the command does not get to read is left
\* at its default.
Invocation(path_exists, omendb, mode, hits, files, no_index, n, threshold, query) ==
  [path_exists |-> path_exists, omendb |-> omendb, mode |-> mode, hits |-> hits,
   files |-> files, no_index |-> no_index, n |-> n, threshold |-> threshold,
   query |-> query]

QueryInvocations ==
  {Invocation(FALSE, TRUE, "semantic", 0, <<>>, FALSE, MaxK, 0, 1),
   Invocation(TRUE, FALSE, "semantic", 0, <<>>, FALSE, MaxK, 0, 1)}
  \cup {Invocation(TRUE, TRUE, mode, hits, <<>>, FALSE, n, 0, 1) :
          mode \in {"exact", "regex"}, hits \in Ks, n \in Ks}
  \cup {Invocation(TRUE, TRUE, "semantic", 0, files, no_index, o[1], o[2], o[3]) :
          files \in FileSets, no_index \in BOOLEAN, o \in QueryOptions}

\* rebuild scans the tree; status and clean do not.
RebuildInvocations ==
  {Invocation(TRUE, omendb, "command", 0, files, FALSE, MaxK, 0, 1) :
     omendb \in BOOLEAN, files \in FileSets}

CommandInvocations ==
  {Invocation(TRUE, omendb, "command", 0, <<>>, FALSE, MaxK, 0, 1) :
     omendb \in BOOLEAN}

(***************************************************************************)
(* The state: the index directory of one root, one engine instance, and    *)
(* the call whose result the caller has not taken yet.                     *)
(***************************************************************************)

VARIABLES
  manifest_file,  \* the manifest document: absent, corrupt, or its files
  vectors,        \* the vector store: id -> metadata
  index_dir,      \* the hidden index directory exists
  db_open,        \* self._db is not None
  call            \* the call that just ended: op, files, before, raised, stats, trace

vars == <<manifest_file, vectors, index_dir, db_open, call>>

\* The run a call starts with, from the present state.
Run(failAt) ==
  [manifest_file |-> manifest_file, vectors |-> vectors, index_dir |-> index_dir,
   db_open |-> db_open, trace |-> <<>>, fuel |-> failAt, raised |-> FALSE]

NoCall ==
  [op |-> "none", files |-> <<>>, args |-> <<>>,
   before |-> [manifest_file |-> NoManifest, vectors |-> <<>>,
               index_dir |-> FALSE, db_open |-> FALSE],
   raised |-> FALSE, stats |-> ZeroStats, result |-> <<>>, trace |-> <<>>]

Idle == call.op = "none"

\* The end of a call: what it left on disk and in the instance, and what
\* the caller gets.
Before ==
  [manifest_file |-> manifest_file, vectors |-> vectors,
   index_dir |-> index_dir, db_open |-> db_open]

Finish(op, files, r) ==
  /\ manifest_file' = r.m.manifest_file
  /\ vectors' = r.m.vectors
  /\ index_dir' = r.m.index_dir
  /\ db_open' = r.m.db_open
  /\ call' = [op |-> op, files |-> files, args |-> <<>>, before |-> Before,
              raised |-> r.m.raised, stats |-> r.stats, result |-> r.stats,
              trace |-> r.m.trace]

\* The end of a call that returns something other than stats.
Answer(op, files, args, m, result) ==
  /\ manifest_file' = m.manifest_file
  /\ vectors' = m.vectors
  /\ index_dir' = m.index_dir
  /\ db_open' = m.db_open
  /\ call' = [op |-> op, files |-> files, args |-> args, before |-> Before,
              raised |-> m.raised, stats |-> ZeroStats, result |-> result,
              trace |-> m.trace]

\* The store handle of the instance outlived its directory (clear() keeps
\* self._db).  The calls below that use the store are made on a handle
\* whose directory exists; index() on the outlived handle is
\* CallIndexAfterClear.
Stale == db_open /\ ~index_dir

CallIndex ==
  /\ Idle /\ ~Stale
  /\ \E files \in FileSets, failAt \in FailPoints :
       Finish("index", files, Index(Run(failAt), files))

CallUpdate ==
  /\ Idle /\ ~Stale
  /\ \E files \in FileSets, failAt \in FailPoints :
       Finish("update", files, Update(Run(failAt), files))

CallGetStaleFiles ==
  /\ Idle
  /\ \E files \in FileSets :
       LET st == GetStaleFiles(manifest_file, files)
           m == IF st.ok THEN Run(0) ELSE Raise(Run(0), "load", <<>>)
       IN Answer("get_stale_files", files, <<>>, m,
                 [changed |-> st.changed, deleted |-> st.deleted])

CallNeedsUpdate ==
  /\ Idle
  /\ \E files \in FileSets :
       LET n == NeedsUpdate(manifest_file, files)
           m == IF n >= 0 THEN Run(0) ELSE Raise(Run(0), "load", <<>>)
       IN Answer("needs_update", files, <<>>, m, n)

CallLoadManifest ==
  /\ Idle
  /\ LET ld == LoadManifest(manifest_file)
         m == IF ld.ok THEN Run(0) ELSE Raise(Run(0), "load", <<>>)
     IN Answer("load_manifest", <<>>, <<>>, m, ld.files)

CallIsIndexed ==
  /\ Idle
  /\ Answer("is_indexed", <<>>, <<>>, Run(0), IsIndexed(manifest_file))

CallCount ==
  /\ Idle
  /\ LET r == Count(Run(0))
     IN Answer("count", <<>>, <<>>, r.m, r.result)

CallClear ==
  /\ Idle
  /\ Answer("clear", <<>>, <<>>, Clear(Run(0)), <<>>)

CallSearch ==
  /\ Idle /\ ~Stale
  /\ \E query \in Queries, k \in Ks, failAt \in FailPoints :
       LET r == Search(Run(failAt), query, k)
       IN Answer("search", <<>>, [query |-> query, k |-> k, results |-> r.results],
                 r.m, r.result)

CallSemanticSearch ==
  /\ Idle
  /\ \E query \in Queries, n \in Ks, threshold \in Thresholds,
        failAt \in FailPoints :
       LET r == SemanticSearch(Run(failAt), query, n, threshold)
       IN Answer("semantic_search", <<>>,
                 [query |-> query, n |-> n, threshold |-> threshold,
                  results |-> r.results, found |-> r.found],
                 [r.m EXCEPT !.db_open = db_open], r.result)

\* The end of a command: the process is gone, the disk is what it left.
Ended(op, inv, r) ==
  Answer(op, inv.files, inv, [r.m EXCEPT !.db_open = db_open],
         [exit |-> r.exit, uncaught |-> r.uncaught, message |-> r.message,
          output |-> r.output])

Query ==
  /\ Idle
  /\ \E inv \in QueryInvocations, failAt \in FailPoints :
       Ended("query", inv, Main(Run(failAt), inv))

StatusCommand ==
  /\ Idle
  /\ \E inv \in CommandInvocations : Ended("status", inv, Status(Run(0), inv))

RebuildCommand ==
  /\ Idle
  /\ \E inv \in RebuildInvocations, failAt \in FailPoints :
       Ended("rebuild", inv, Rebuild(Run(failAt), inv))

CleanCommand ==
  /\ Idle
  /\ \E inv \in CommandInvocations : Ended("clean", inv, Clean(Run(0), inv))

\* The caller takes the result (or the exception); the engine is idle again.
Return ==
  /\ ~Idle
  /\ call' = NoCall
  /\ UNCHANGED <<manifest_file, vectors, index_dir, db_open>>

\* A new SemanticIndex on the same root (a new process, a new CLI command).
NewInstance ==
  /\ Idle
  /\ db_open
  /\ db_open' = FALSE
  /\ UNCHANGED <<manifest_file, vectors, index_dir, call>>

\* The manifest document is damaged (a torn write_text, a disk fault).
CorruptManifest ==
  /\ Idle
  /\ manifest_file.kind = "json"
  /\ manifest_file' = Corrupted
  /\ UNCHANGED <<vectors, index_dir, db_open, call>>

Init ==
  /\ manifest_file = NoManifest
  /\ vectors = <<>>
  /\ index_dir = FALSE
  /\ db_open = FALSE
  /\ call = NoCall

Next == CallIndex \/ CallUpdate \/ Return \/ NewInstance \/ CorruptManifest

\* The engine with the calls that inspect or remove the index: the stale
\* file check, is_indexed(), count() and clear().
NextEngine ==
  \/ Next
  \/ CallGetStaleFiles \/ CallNeedsUpdate
  \/ CallIsIndexed \/ CallCount \/ CallClear

SpecEngine == Init /\ [][NextEngine]_vars

\* What index() stores, queried by search() and by the CLI's
\* semantic_search(), from the indexing engine or from a new one.
NextSearch ==
  \/ CallIndex \/ Return \/ NewInstance
  \/ CallSearch \/ CallSemanticSearch

SpecSearch == Init /\ [][NextSearch]_vars

\* The root as the commands of the CLI alone use it.
NextCli ==
  \/ Query \/ StatusCommand \/ RebuildCommand \/ CleanCommand
  \/ Return \/ CorruptManifest

SpecCli == Init /\ [][NextCli]_vars

Spec == Init /\ [][Next]_vars

(***************************************************************************)
(* What the claims speak of.                                               *)
(***************************************************************************)

\* A call of index() or update() has just returned without raising.
Returned == call.op \in {"index", "update"} /\ ~call.raised

\* The manifest as index() and update() read it (empty when it does not load).
Manifest(doc) == LoadManifest(doc).files

\* The ids in a store whose metadata names path p.
StoredFrom(vecs, p) == {id \in DOMAIN vecs : vecs[id].file = p}

\* The ids a manifest lists.
Listed(files) == UNION {Range(files[p].blocks) : p \in DOMAIN files}

\* The events of a trace with the given ops that happened.
Events(trace, ops) == {i \in DOMAIN trace : trace[i].op \in ops /\ trace[i].ok}

\* C1: after an index() or update() call that returned, every manifest
\* entry's block ids are exactly the stored ids that came from its path.
C1_BlockIdsAreStoredIds ==
  Returned =>
    \A p \in DOMAIN Manifest(manifest_file) :
      Range(Manifest(manifest_file)[p].blocks) = StoredFrom(vectors, p)

\* stats["errors"]; update()'s early stats record has no such key.
Errors(stats) == IF "errors" \in DOMAIN stats THEN stats.errors ELSE 0

\* The same file set without one path, and with one path's content changed.
Without(files, p) == [q \in DOMAIN files \ {p} |-> files[q]]
WithContent(files, p, c) == [q \in DOMAIN files |-> IF q = p THEN c ELSE files[q]]

\* The ids index() derives from a content (none when extraction fails).
DerivedIds(p, c) ==
  IF Extract(p, c).ok THEN Range(NewBlockIds(p, Extract(p, c).blocks)) ELSE {}

\* C2: index() called a second time with the file set of an index() call
\* that returned skips every file and embeds no block.
C2_SecondIndexSkipsAll ==
  (call.op = "index" /\ ~call.raised) =>
    \A failAt \in FailPoints :
      LET r == Index(Run(failAt), call.files)
      IN ~r.m.raised =>
           /\ r.stats.skipped = Cardinality(DOMAIN call.files)
           /\ r.stats.blocks = 0

\* The ids the upserts of a trace wrote.
Written(trace) == UNION {Range(trace[i].ids) : i \in Events(trace, {"set"})}

Ops == {"index", "update"}

\* The call op(files) started now, stopping at failAt.
Call(op, files, failAt) ==
  IF op = "index" THEN Index(Run(failAt), files) ELSE Update(Run(failAt), files)

\* C3: after a run that stopped with a batch upserted and the manifest not
\* saved, the next index() or update() that returns, on any file set,
\* leaves none of that run's vectors in the store unlisted by the manifest.
C3_InterruptedRunIsRepaired ==
  (call.op \in Ops /\ call.raised /\ Written(call.trace) # {}
     /\ manifest_file = call.before.manifest_file) =>
    \A op \in Ops, files \in FileSets, failAt \in FailPoints :
      LET r == Call(op, files, failAt)
      IN ~r.m.raised =>
           Written(call.trace) \cap DOMAIN r.m.vectors
             \subseteq Listed(Manifest(r.m.manifest_file))

\* C4: after index(files) returned without an extraction error, update() on
\* the same set with one file's content changed removes the ids the manifest
\* recorded for that file, inserts the ids derived from the new content, and
\* leaves the vectors and the manifest entries of the other files as they were.
C4_UpdateTouchesOnlyTheChangedFile ==
  (call.op = "index" /\ ~call.raised /\ call.stats.errors = 0) =>
    \A p \in DOMAIN call.files : \A c \in Contents \ {call.files[p]} :
      LET r == Update(Run(0), WithContent(call.files, p, c))
          old == Manifest(manifest_file)
          new == Manifest(r.m.manifest_file)
          recorded == Range(EntryBlocks(old, p))
      IN ~r.m.raised =>
           /\ StoredFrom(r.m.vectors, p)
                = (StoredFrom(vectors, p) \ recorded) \cup DerivedIds(p, c)
           /\ \A q \in DOMAIN call.files \ {p} :
                /\ StoredFrom(r.m.vectors, q) = StoredFrom(vectors, q)
                /\ \A id \in StoredFrom(vectors, q) : r.m.vectors[id] = vectors[id]
                /\ (q \in DOMAIN new) = (q \in DOMAIN old)
                /\ q \in DOMAIN old => new[q] = old[q]

\* C5: after update() returned without an extraction error, update() on the
\* same set without one indexed file: needs_update is 1 before it, and after
\* it the file's block ids are not stored, the file has no manifest entry,
\* and needs_update is 0.
C5_DeletedFileIsReconciled ==
  (call.op = "update" /\ ~call.raised /\ Errors(call.stats) = 0) =>
    \A p \in DOMAIN call.files \cap DOMAIN Manifest(manifest_file) :
      LET files == Without(call.files, p)
          r == Update(Run(0), files)
          recorded == Range(EntryBlocks(Manifest(manifest_file), p))
      IN /\ NeedsUpdate(manifest_file, files) = 1
         /\ ~r.m.raised
         /\ recorded \cap DOMAIN r.m.vectors = {}
         /\ p \notin DOMAIN Manifest(r.m.manifest_file)
         /\ NeedsUpdate(r.m.manifest_file, files) = 0

\* The ids of the upserts of a trace that happened, in order.
RECURSIVE SetIds(_)
SetIds(trace) ==
  IF trace = <<>> THEN <<>>
  ELSE (IF Head(trace).op = "set" /\ Head(trace).ok THEN Head(trace).ids ELSE <<>>)
       \o SetIds(Tail(trace))

\* A path of the input that index() does not skip: its hash is not the
\* manifest's.
Visited(manifest, files, p) == ~SkipFile(manifest, p, FileHash(files[p]))

\* The ids index() has to embed for an input, in staging order.
RECURSIVE ToEmbed(_, _, _)
ToEmbed(manifest, files, todo) ==
  IF todo = <<>> THEN <<>>
  ELSE LET p == Head(todo)
           ex == Extract(p, files[p])
       IN (IF Visited(manifest, files, p) /\ ex.ok
           THEN NewBlockIds(p, ex.blocks) ELSE <<>>)
          \o ToEmbed(manifest, files, Tail(todo))

\* The embed and upsert calls of a trace that raised.
FailedBatches(trace) ==
  {i \in DOMAIN trace : trace[i].op \in {"embed", "set"} /\ ~trace[i].ok}

\* C6: index() writes the manifest at most once, as its last effect and with
\* every staged block upserted before; when an embed or upsert call fails,
\* the manifest document is what it was when index() was entered.
C6_ManifestSavedOnceAfterAllBatches ==
  call.op = "index" =>
    LET saves == Events(call.trace, {"save"})
    IN /\ Cardinality(saves) <= 1
       /\ \A i \in saves :
            /\ i = Len(call.trace)
            /\ SetIds(call.trace)
                 = ToEmbed(Manifest(call.before.manifest_file), call.files,
                           Keys(DOMAIN call.files))
       /\ saves = {} => manifest_file = call.before.manifest_file
       /\ FailedBatches(call.trace) # {} =>
            manifest_file = call.before.manifest_file

\* C6 happens: index() returned after two batches and one save.
C6_Witness ==
  /\ call.op = "index" /\ ~call.raised
  /\ Cardinality(Events(call.trace, {"set"})) = 2
  /\ Cardinality(Events(call.trace, {"save"})) = 1
  /\ manifest_file # call.before.manifest_file

\* The paths of the latest call whose extraction failed.
Failing ==
  {p \in DOMAIN call.files :
     /\ Visited(Manifest(call.before.manifest_file), call.files, p)
     /\ ~Extract(p, call.files[p]).ok}

\* The ids a trace handed to the embedder.
Embedded(trace) == UNION {Range(trace[i].ids) : i \in Events(trace, {"embed"})}

\* C7: when extraction fails for paths of index(), errors counts them, every
\* other path is skipped or extracted and embedded, and the manifest entry of
\* a failing path is what it was before the call (or still absent).
C7_ExtractionFailureIsLocal ==
  (call.op = "index" /\ ~call.raised /\ Failing # {}) =>
    LET before == Manifest(call.before.manifest_file)
        after == Manifest(manifest_file)
        others == DOMAIN call.files \ Failing
        skipped == {p \in others : ~Visited(before, call.files, p)}
    IN /\ call.stats.errors = Cardinality(Failing)
       /\ call.stats.skipped = Cardinality(skipped)
       /\ call.stats.files = Cardinality(others \ skipped)
       /\ \A p \in others \ skipped :
            DerivedIds(p, call.files[p]) \subseteq Embedded(call.trace)
       /\ \A p \in Failing :
            /\ (p \in DOMAIN after) = (p \in DOMAIN before)
            /\ p \in DOMAIN before => after[p] = before[p]

\* C7 happens: the first path, indexed before, fails to extract, and the
\* second path is embedded in the same call.
C7_Witness ==
  /\ call.op = "index" /\ ~call.raised
  /\ Failing = {1}
  /\ 1 \in DOMAIN Manifest(call.before.manifest_file)
  /\ 2 \in DOMAIN call.files
  /\ DerivedIds(2, call.files[2]) # {}
  /\ DerivedIds(2, call.files[2]) \subseteq DOMAIN vectors
  /\ call.stats.errors = 1

\* C8: with a corrupted manifest document the load does not raise:
\* index() and update() go on as with no manifest.
C8_CorruptManifestLoadsEmpty ==
  (call.op \in Ops /\ call.before.manifest_file.kind = "corrupt") =>
    \A i \in DOMAIN call.trace : call.trace[i].op = "load" => call.trace[i].ok

\* C9: when index() returns having processed a path whose hash differs from
\* the manifest's, no vector stored for the path before the call, other than
\* those with a newly derived id, is left in the store.
C9_NoVectorOfOldContentSurvives ==
  (call.op = "index" /\ ~call.raised) =>
    \A p \in DOMAIN call.files \cap DOMAIN Manifest(call.before.manifest_file) :
      (/\ Visited(Manifest(call.before.manifest_file), call.files, p)
       /\ Extract(p, call.files[p]).ok) =>
        (StoredFrom(call.before.vectors, p) \ DerivedIds(p, call.files[p]))
          \cap DOMAIN vectors = {}

\* C10: when an embed or upsert call of index() fails, the call raises,
\* nothing is embedded or upserted after it, and the vectors of the batches
\* upserted before it are in the store.
C10_BatchFailureAborts ==
  call.op = "index" =>
    \A i \in FailedBatches(call.trace) :
      /\ call.raised
      /\ i = Len(call.trace)
      /\ \A j \in 1..(i - 1) :
           call.trace[j].op = "set" =>
             /\ call.trace[j].ok
             /\ Range(call.trace[j].ids) \subseteq DOMAIN vectors

\* C10 happens: the second batch fails after the first was upserted.
C10_Witness ==
  /\ call.op = "index" /\ call.raised
  /\ FailedBatches(call.trace) # {}
  /\ Cardinality(Events(call.trace, {"set"})) = 1
  /\ Written(call.trace) # {}
  /\ Written(call.trace) \subseteq DOMAIN vectors

\* A sequence with no element twice.
NoDuplicates(seq) == Cardinality(Range(seq)) = Len(seq)

\* The paths of files that are new or changed for a manifest, and the
\* manifest's paths that files does not have.
NewOrChanged(manifest, files) ==
  {p \in DOMAIN files :
     p \notin DOMAIN manifest \/ manifest[p].hash # FileHash(files[p])}
Vanished(manifest, files) == DOMAIN manifest \ DOMAIN files

\* The call left the manifest document, the store, the index directory and
\* the instance as they were.
NothingTouched ==
  /\ manifest_file = call.before.manifest_file
  /\ vectors = call.before.vectors
  /\ index_dir = call.before.index_dir
  /\ db_open = call.before.db_open

\* C11: get_stale_files(files), when it returns, gives as changed exactly the
\* paths of files with no manifest entry or with a stored hash other than the
\* hash of their content, and as deleted exactly the manifest's paths that
\* are not in files; the two are disjoint; needs_update(files) is the sum of
\* their sizes; and neither call changes the manifest or the store.
C11_StaleFilesAreExact ==
  LET manifest == Manifest(call.before.manifest_file)
  IN /\ (call.op = "get_stale_files" /\ ~call.raised) =>
          /\ Range(call.result.changed) = NewOrChanged(manifest, call.files)
          /\ Range(call.result.deleted) = Vanished(manifest, call.files)
          /\ NoDuplicates(call.result.changed)
          /\ NoDuplicates(call.result.deleted)
          /\ Range(call.result.changed) \cap Range(call.result.deleted) = {}
     /\ (call.op = "needs_update" /\ ~call.raised) =>
          call.result = Cardinality(NewOrChanged(manifest, call.files))
                          + Cardinality(Vanished(manifest, call.files))
     /\ call.op \in {"get_stale_files", "needs_update"} => NothingTouched

\* C11 happens: get_stale_files() returned a path with a new content, a
\* path the manifest does not have, and the store is not empty.
C11_Witness ==
  /\ call.op = "get_stale_files" /\ ~call.raised
  /\ \E p \in Range(call.result.changed) :
       p \in DOMAIN Manifest(call.before.manifest_file)
  /\ call.result.deleted # <<>>
  /\ vectors # <<>>

\* C12: when update(files) finds nothing changed and nothing deleted, it
\* returns stats with skipped equal to the number of input files and has no
\* effect: the store is neither opened nor created, no vector is added or
\* deleted, and the manifest document is not written.
C12_NoOpUpdateWritesNothing ==
  (/\ call.op = "update"
   /\ LoadManifest(call.before.manifest_file).ok
   /\ NewOrChanged(Manifest(call.before.manifest_file), call.files) = {}
   /\ Vanished(Manifest(call.before.manifest_file), call.files) = {}) =>
    /\ ~call.raised
    /\ call.stats.skipped = Cardinality(DOMAIN call.files)
    /\ call.stats.files = 0 /\ call.stats.blocks = 0 /\ call.stats.deleted = 0
    /\ call.trace = <<>>
    /\ NothingTouched

\* C12 happens: update() of two indexed, unchanged files on an instance
\* whose store is not open.
C12_Witness ==
  /\ call.op = "update" /\ ~call.raised
  /\ Cardinality(DOMAIN call.files) = 2
  /\ call.stats.skipped = 2
  /\ vectors # <<>>
  /\ ~call.before.db_open /\ ~db_open

\* C13: loading a manifest document gives every path that the document maps
\* to a bare hash an entry with that hash and no block ids, and gives every
\* entry of the current format as the document has it.
C13_LegacyEntriesAreMigrated ==
  (call.op = "load_manifest" /\ call.before.manifest_file.kind = "json") =>
    LET doc == call.before.manifest_file.files
    IN /\ ~call.raised
       /\ DOMAIN call.result = DOMAIN doc
       /\ \A p \in DOMAIN doc :
            IF IsStr(doc[p])
            THEN /\ call.result[p].hash = doc[p].v1
                 /\ call.result[p].blocks = <<>>
                 /\ DOMAIN call.result[p] = {"hash", "blocks"}
            ELSE call.result[p] = doc[p]

\* C13 happens: a document of two bare hashes is loaded, with the vectors of
\* both files in the store.
C13_Witness ==
  /\ call.op = "load_manifest" /\ ~call.raised
  /\ call.before.manifest_file.kind = "json"
  /\ DOMAIN call.before.manifest_file.files = {1, 2}
  /\ \A p \in {1, 2} : IsStr(call.before.manifest_file.files[p])
  /\ \A p \in {1, 2} : StoredFrom(vectors, p) # {}
  /\ \A p \in {1, 2} : call.result[p].blocks = <<>>

\* C14: after clear(), whatever the index was, the manifest and the store
\* directory are gone, is_indexed() is false and count() is 0 (and opens
\* nothing); clear() on a root with no index directory changes nothing; and
\* clear() does not raise.
C14_ClearRemovesTheIndex ==
  call.op = "clear" =>
    /\ ~call.raised
    /\ manifest_file = NoManifest
    /\ vectors = <<>>
    /\ ~index_dir
    /\ ~IsIndexed(manifest_file)
    /\ Count(Run(0)).result = 0
    /\ ~Count(Run(0)).m.index_dir
    /\ ~call.before.index_dir => (NothingTouched /\ call.trace = <<>>)

\* C14 happens: clear() on an index with a manifest and stored vectors,
\* on the instance that has the store open.
C14_Witness ==
  /\ call.op = "clear" /\ ~call.raised
  /\ call.before.manifest_file.kind = "json"
  /\ call.before.vectors # <<>>
  /\ call.before.db_open
  /\ ~index_dir

\* C16: the score of every search result is (2 - distance) / 2 of the
\* distance the store returned for it: distance 0 gives score 1.0, distance 2
\* gives score 0.0, and every score is between 0.0 and 1.0.  (A distance is
\* d / Resolution and a score is s / One.)
C16_ScoreIsHalfOfTwoMinusDistance ==
  (call.op = "search" /\ ~call.raised) =>
    /\ Len(call.result) = Len(call.args.results)
    /\ \A j \in DOMAIN call.result :
         LET s == call.result[j].score
             d == call.args.results[j].distance
         IN /\ 2 * s * Resolution = (2 * Resolution - d) * One
            /\ d = 0 => s = One
            /\ d = 2 * Resolution => s = 0
            /\ 0 <= s /\ s <= One

\* C16 happens: one search returns a result at distance 0 with score 1.0
\* and a result at distance 2 with score 0.0.
C16_Witness ==
  /\ call.op = "search" /\ ~call.raised
  /\ Len(call.result) = 2
  /\ call.args.results[1].distance = 0 /\ call.result[1].score = One
  /\ call.args.results[2].distance = MaxDistance /\ call.result[2].score = 0

\* The distances of the store's results never decrease.
Ascending(results) ==
  \A i, j \in DOMAIN results : i < j => results[i].distance <= results[j].distance

\* C17: search(query, k) returns one result per item the store returned, in
\* the store's order, each with the file, type, name and line of the item's
\* metadata, and at most k of them; when the store's distances are
\* ascending the scores never increase.
C17_SearchKeepsTheStoresOrder ==
  (call.op = "search" /\ ~call.raised) =>
    LET results == call.args.results
    IN /\ Len(call.result) = Len(results)
       /\ Len(call.result) <= call.args.k
       /\ \A j \in DOMAIN results :
            /\ call.result[j].file = results[j].metadata.file
            /\ call.result[j].type = results[j].metadata.type
            /\ call.result[j].name = results[j].metadata.name
            /\ call.result[j].line = results[j].metadata.start_line
            /\ call.result[j].file = results[j].id[1]
       /\ Ascending(results) =>
            \A i, j \in DOMAIN call.result :
              i < j => call.result[i].score >= call.result[j].score

\* C17 happens: a search with k = 2 on a store of more than two vectors
\* returns two results of different files and different scores.
C17_Witness ==
  /\ call.op = "search" /\ ~call.raised
  /\ call.args.k = 2
  /\ Cardinality(DOMAIN vectors) > 2
  /\ Len(call.result) = 2
  /\ call.result[1].file # call.result[2].file
  /\ call.result[1].score > call.result[2].score

\* C20: count() returns the number of vectors in the store when the manifest
\* file exists and 0 when it does not, whatever the store holds, and
\* is_indexed() is true exactly when the manifest file exists.
C20_CountFollowsTheManifest ==
  /\ call.op = "count" =>
       /\ ~call.raised
       /\ call.before.manifest_file.kind # "absent" =>
            call.result = Cardinality(DOMAIN call.before.vectors)
       /\ call.before.manifest_file.kind = "absent" =>
            (call.result = 0 /\ NothingTouched)
  /\ call.op = "is_indexed" =>
       /\ ~call.raised
       /\ call.result = (call.before.manifest_file.kind # "absent")

\* C20 happens: count() is 0 on a root whose store holds vectors and whose
\* manifest was never written.
C20_Witness ==
  /\ call.op = "count" /\ ~call.raised
  /\ call.before.manifest_file.kind = "absent"
  /\ call.before.vectors # <<>>
  /\ call.result = 0

\* C18: semantic_search() returns exactly the results of search(query, k=n)
\* whose score is at least the threshold, in their order; the store is
\* searched with k = n whatever the threshold; and with a threshold of 0 or
\* less every result is returned.
C18_ThresholdIsAPostFilter ==
  (call.op = "semantic_search" /\ ~call.raised) =>
    LET found == call.args.found
        atLeast(x) == x.score >= call.args.threshold
        asked == DbSearch(call.before.vectors, call.args.query, call.args.n)
    IN /\ call.result = SelectSeq(found, atLeast)
       /\ call.args.results = asked
       /\ Len(found) = Len(asked)
       /\ call.args.threshold <= 0 => call.result = found

\* C18 happens: of two results found, the one with a score equal to the
\* threshold is returned and the one below it is not.
C18_Witness ==
  /\ call.op = "semantic_search" /\ ~call.raised
  /\ Len(call.args.found) = 2
  /\ Len(call.result) = 1
  /\ call.result[1].score = call.args.threshold
  /\ \E j \in DOMAIN call.args.found :
       call.args.found[j].score < call.args.threshold

\* A query, status or clean command has ended that found the path, had
\* omendb, and found no manifest under the root.
OnMissingIndex ==
  /\ call.op \in {"query", "status", "clean"}
  /\ call.args.path_exists /\ call.args.omendb
  /\ ~IndexExists(call.before.manifest_file)

\* The places of the events of a trace with the given op.
Places(trace, op) == {i \in DOMAIN trace : trace[i].op = op}

EndedOnError ==
  \/ call.result.uncaught
  \/ call.result.message \in
       {"path does not exist", "omendb not installed", "no index found"}

\* C19: a query ends with exit code 0 exactly when it printed at least one
\* result, with 1 when its search completed without a result, and with 2
\* when it ended on an error.
C19_ExitCodeTellsTheOutcome ==
  call.op = "query" =>
    /\ (call.result.exit = EXIT_MATCH) = (call.result.output # <<>>)
    /\ (~EndedOnError /\ call.result.output = <<>>) =>
         call.result.exit = EXIT_NO_MATCH
    /\ EndedOnError => call.result.exit = EXIT_ERROR

(***************************************************************************)
(* An index left by the v1 format: the manifest maps each path to its bare *)
(* hash and the store holds the vectors of those files.                    *)
(***************************************************************************)

InitLegacy ==
  /\ \E files \in FileSets :
       /\ \A p \in DOMAIN files : Extract(p, files[p]).ok
       /\ manifest_file = Document([p \in DOMAIN files |-> V1(FileHash(files[p]))])
       /\ vectors =
            LET staged == ToEmbed(<<>>, files, Keys(DOMAIN files))
                block(id) == Block("function", id[3], id[2])
            IN [id \in Range(staged) |->
                  Metadata([file |-> id[1], block |-> block(id)])]
  /\ index_dir = TRUE
  /\ db_open = FALSE
  /\ call = NoCall

SpecLegacy == InitLegacy /\ [][Next]_vars

\* The manifest of such an index, and of what index() makes of it, loaded
\* on its own.
NextLoad == CallIndex \/ CallLoadManifest \/ Return

SpecLoad == InitLegacy /\ [][NextLoad]_vars

\* The paths index() counted in stats["files"]: not skipped, and extracted.
Counted ==
  {p \in DOMAIN call.files :
     /\ Visited(Manifest(call.before.manifest_file), call.files, p)
     /\ Extract(p, call.files[p]).ok}

\* C22: after index() returned without raising, every path it counted in
\* stats files has a manifest entry with the hash of the supplied content and
\* the block ids derived for it in this call, a first-time path and a path
\* with no blocks included.
C22_CountedPathsGetTheirEntry ==
  (call.op = "index" /\ ~call.raised) =>
    /\ call.stats.files = Cardinality(Counted)
    /\ \A p \in Counted :
         /\ p \in DOMAIN Manifest(manifest_file)
         /\ Manifest(manifest_file)[p]
              = V2(FileHash(call.files[p]),
                   NewBlockIds(p, Extract(p, call.files[p]).blocks))

\* The vectors the latest call removed from the store: every db.delete of a
\* call comes before its first db.set, so they are the vectors stored before
\* the call whose id a db.delete of the call named.
RemovedIds ==
  DOMAIN call.before.vectors
    \cap UNION {Range(call.trace[i].ids) : i \in Events(call.trace, {"delete"})}

\* C23: the deleted count that index() and update() return is the number of
\* vectors the call removed from the store.
C23_DeletedCountsRemovedVectors ==
  Returned => call.stats.deleted = Cardinality(RemovedIds)

\* The place of the first manifest write of a trace, done or not (0: none).
FirstSave(trace) ==
  IF Places(trace, "save") = {} THEN 0
  ELSE CHOOSE i \in Places(trace, "save") : \A j \in Places(trace, "save") : i <= j

\* The db.delete calls the deletion phase of update() has to make: the block
\* ids the manifest records for each deleted path that has any, in order.
ToDelete(manifest, files) ==
  LET gone == Deleted(manifest, files)
      listed(j) == EntryBlocks(manifest, gone[j]) # <<>>
      places == SelectSeq([j \in DOMAIN gone |-> j], listed)
  IN [i \in DOMAIN places |-> EntryBlocks(manifest, gone[places[i]])]

\* update() was called with paths of the manifest missing from files.
UpdateWithDeleted ==
  /\ call.op = "update"
  /\ LoadManifest(call.before.manifest_file).ok
  /\ Vanished(Manifest(call.before.manifest_file), call.files) # {}

\* C24: update() saves the manifest once for the deletion phase, after the
\* db.delete of every deleted path and before anything of a changed path is
\* deleted, embedded or stored; when the run stops before that save, the
\* manifest still lists every deleted path with its block ids and the next
\* update() deletes them again and drops the entries.
C24_DeletionsAreSavedOnce ==
  UpdateWithDeleted =>
    LET before == Manifest(call.before.manifest_file)
        todo == ToDelete(before, call.files)
        opened == IF call.before.db_open THEN 0 ELSE 1
        first == FirstSave(call.trace)
        deletes == SubSeq(call.trace, opened + 1,
                          IF first = 0 THEN Len(call.trace) ELSE first - 1)
        saved == first # 0 /\ call.trace[first].ok
        next == Update(Run(0), call.files)
    IN /\ ~call.raised => saved
       /\ Len(deletes) <= Len(todo)
       /\ \A i \in DOMAIN deletes :
            /\ deletes[i].op = "delete"
            /\ deletes[i].ids = todo[i]
            /\ deletes[i].ok \/ (i = Len(deletes) /\ first = 0)
       /\ first # 0 => Len(deletes) = Len(todo)
       /\ saved =>
            /\ \A i \in Events(call.trace, {"save"}) \ {first} : i = Len(call.trace)
            /\ Vanished(Manifest(manifest_file), call.files) = {}
       /\ ~saved =>
            /\ call.raised
            /\ manifest_file = call.before.manifest_file
            /\ \A p \in Vanished(before, call.files) :
                 /\ p \in DOMAIN Manifest(manifest_file)
                 /\ Manifest(manifest_file)[p].blocks = before[p].blocks
            /\ ~next.m.raised
            /\ \A i \in DOMAIN todo :
                 \E j \in Events(next.m.trace, {"delete"}) : next.m.trace[j].ids = todo[i]
            /\ Vanished(Manifest(next.m.manifest_file), call.files) = {}

\* C24 happens: update() deletes the vectors of a path that is gone, saves
\* the manifest, and after that re-indexes a changed path and saves again.
C24_Witness ==
  /\ UpdateWithDeleted /\ ~call.raised
  /\ ToDelete(Manifest(call.before.manifest_file), call.files) # <<>>
  /\ Cardinality(Events(call.trace, {"save"})) = 2
  /\ Events(call.trace, {"embed"}) # {}
  /\ FirstSave(call.trace) < Len(call.trace)

\* The embed and upsert calls of a trace, in order, done or not.
BatchCalls(trace) ==
  LET isBatchCall(e) == e.op \in {"embed", "set"}
  IN SelectSeq(trace, isBatchCall)

\* The b-th of the consecutive batches of n ids each (the last may be
\* smaller).
BatchOf(ids, n, b) == SubSeq(ids, (b - 1) * n + 1, Min(b * n, Len(ids)))

\* C25: index() embeds and upserts the staged blocks, in staging order, in
\* consecutive batches of BatchSize blocks, the last possibly smaller: one
\* embed call, then one upsert, for each batch, and the embed call of a batch
\* only after the upsert of the batch before it was done.
C25_BatchesRunInSequence ==
  call.op = "index" =>
    LET staged == ToEmbed(Manifest(call.before.manifest_file), call.files,
                          Keys(DOMAIN call.files))
        batches == (Len(staged) + BatchSize - 1) \div BatchSize
        calls == BatchCalls(call.trace)
    IN /\ Len(calls) <= 2 * batches
       /\ ~call.raised => Len(calls) = 2 * batches
       /\ \A j \in DOMAIN calls :
            /\ calls[j].op = (IF j % 2 = 1 THEN "embed" ELSE "set")
            /\ calls[j].ids = BatchOf(staged, BatchSize, (j + 1) \div 2)
            /\ Len(calls[j].ids) <= BatchSize
            /\ calls[j].ok \/ j = Len(calls)

\* C25 happens: index() returned after a full batch and a smaller last one.
C25_Witness ==
  /\ call.op = "index" /\ ~call.raised
  /\ Len(BatchCalls(call.trace)) = 4
  /\ Len(BatchCalls(call.trace)[1].ids) = BatchSize
  /\ Len(BatchCalls(call.trace)[3].ids) < BatchSize
  /\ DOMAIN vectors # {}

(***************************************************************************)
(* Files of which the extractor returns two blocks of one name that start  *)
(* at one line, next to the other files.                                   *)
(***************************************************************************)

\* A content for which Extract returns such a pair.
Duplicated == MaxContent + 2

FileSetsWithDuplicates ==
  UNION {[S -> Contents \cup {Duplicated}] : S \in SUBSET Paths}

CallIndexWithDuplicates ==
  /\ Idle /\ ~Stale
  /\ \E files \in FileSetsWithDuplicates, failAt \in FailPoints :
       Finish("index", files, Index(Run(failAt), files))

NextDuplicates == CallIndexWithDuplicates \/ Return

SpecDuplicates == Init /\ [][NextDuplicates]_vars

\* The number of block ids a manifest lists, path by path.
RECURSIVE ListedCount(_, _)
ListedCount(files, todo) ==
  IF todo = <<>> THEN 0
  ELSE Len(files[Head(todo)].blocks) + ListedCount(files, Tail(todo))

\* C26: the block ids derived in one pass of index() are pairwise distinct:
\* on an empty index, an index() that returned with no extraction error
\* leaves as many vectors in the store as the blocks count it returns and as
\* the manifest lists ids.
C26_IdsOfOnePassAreDistinct ==
  (/\ call.op = "index" /\ ~call.raised /\ call.stats.errors = 0
   /\ call.before.manifest_file = NoManifest
   /\ call.before.vectors = <<>>) =>
    LET after == Manifest(manifest_file)
    IN /\ NoDuplicates(ToEmbed(<<>>, call.files, Keys(DOMAIN call.files)))
       /\ Cardinality(DOMAIN vectors) = call.stats.blocks
       /\ Cardinality(DOMAIN vectors) = ListedCount(after, Keys(DOMAIN after))

\* What index() leaves, read by the calls that only look at the index.
NextReadOnly ==
  \/ CallIndex \/ Return \/ NewInstance
  \/ CallSearch \/ CallCount \/ CallIsIndexed
  \/ CallGetStaleFiles \/ CallNeedsUpdate

SpecReadOnly == Init /\ [][NextReadOnly]_vars

ReadOnlyOps == {"search", "count", "is_indexed", "get_stale_files", "needs_update"}

\* C27: search(), count(), is_indexed(), get_stale_files() and
\* needs_update() leave the manifest document and the stored vectors as they
\* were, whether they return or raise; after a search on a root with no
\* manifest is_indexed() is still false.
C27_ReadOnlyCallsChangeNothingStored ==
  call.op \in ReadOnlyOps =>
    /\ manifest_file = call.before.manifest_file
    /\ vectors = call.before.vectors
    /\ (call.op = "search" /\ ~IsIndexed(call.before.manifest_file)) =>
         ~IsIndexed(manifest_file)

\* C27 happens: a search on a root with nothing under it returned; it made
\* the index directory and opened the store, and there is no manifest.
C27_Witness ==
  /\ call.op = "search" /\ ~call.raised
  /\ ~call.before.index_dir /\ index_dir /\ db_open
  /\ ~IsIndexed(manifest_file)
  /\ vectors = <<>>

\* A semantic query has ended that found the path and had omendb.
SemanticQuery ==
  /\ call.op = "query" /\ call.args.mode = "semantic"
  /\ call.args.path_exists /\ call.args.omendb

\* The places in a trace of the steps that build or update the index, and
\* of the steps of the search.
ReconcileSteps(trace) ==
  {i \in DOMAIN trace :
     trace[i].op \in {"build_index", "needs_update", "update", "load",
                      "delete", "embed", "set", "save"}}
SearchSteps(trace) == Places(trace, "embed_one") \cup Places(trace, "search")

\* C28: in a semantic query every step of the search comes after the index
\* was reconciled.  With no manifest and without --no-index the index is
\* built first (when the scan finds a file to build it from); with a
\* manifest and without --no-index, update() runs first exactly when
\* needs_update is above 0; with --no-index nothing is built or updated,
\* and with no manifest the command then ends before any search.  A query
\* that ends with EXIT_MATCH or EXIT_NO_MATCH has searched.
C28_SearchFollowsReconciliation ==
  SemanticQuery =>
    LET exists == IndexExists(call.before.manifest_file)
        stale_count == NeedsUpdate(call.before.manifest_file, call.files)
        trace == call.trace
    IN /\ \A i \in ReconcileSteps(trace), j \in SearchSteps(trace) : i < j
       /\ (~exists /\ ~call.args.no_index) =>
            /\ Places(trace, "needs_update") = {} /\ Places(trace, "update") = {}
            /\ DOMAIN call.files # {} => Places(trace, "build_index") = {1}
            /\ DOMAIN call.files = {} => ReconcileSteps(trace) = {}
       /\ (exists /\ ~call.args.no_index) =>
            /\ Places(trace, "build_index") = {}
            /\ Places(trace, "needs_update") = {1}
            /\ stale_count > 0 => Places(trace, "update") = {2}
            /\ stale_count <= 0 => Places(trace, "update") = {}
       /\ call.args.no_index =>
            /\ ReconcileSteps(trace) = {}
            /\ ~exists =>
                 /\ trace = <<>>
                 /\ call.result.exit = EXIT_ERROR
                 /\ NothingTouched
       /\ (~call.result.uncaught /\ call.result.exit \in {EXIT_MATCH, EXIT_NO_MATCH}) =>
            Places(trace, "search") # {}

\* C28 happens: a query on an index with a stale file updates the index,
\* then searches it and prints a result.
C28_Witness ==
  /\ SemanticQuery /\ ~call.args.no_index
  /\ IndexExists(call.before.manifest_file)
  /\ NeedsUpdate(call.before.manifest_file, call.files) > 0
  /\ Places(call.trace, "update") # {}
  /\ Places(call.trace, "set") # {}
  /\ Places(call.trace, "search") # {}
  /\ call.result.exit = EXIT_MATCH
  /\ call.result.output # <<>>

\* The number of blocks the extractor returns for the given paths of files.
RECURSIVE BlocksOf(_, _)
BlocksOf(files, todo) ==
  IF todo = <<>> THEN 0
  ELSE Len(Extract(Head(todo), files[Head(todo)]).blocks) + BlocksOf(files, Tail(todo))

\* C29: in the stats of an index(files) call that returned, files, skipped
\* and errors add up to the number of paths of the input, and blocks is the
\* number of blocks staged from the paths counted in files; a single file
\* with one block on an empty index gives files 1, blocks 1, skipped 0 and
\* errors 0.
C29_StatsAddUp ==
  (call.op = "index" /\ ~call.raised) =>
    /\ call.stats.files + call.stats.skipped + call.stats.errors
         = Cardinality(DOMAIN call.files)
    /\ call.stats.files = Cardinality(Counted)
    /\ call.stats.blocks = BlocksOf(call.files, Keys(Counted))
    /\ (/\ Cardinality(DOMAIN call.files) = 1
        /\ BlocksOf(call.files, Keys(DOMAIN call.files)) = 1
        /\ call.before.manifest_file = NoManifest
        /\ call.before.vectors = <<>>) =>
         /\ call.stats.files = 1 /\ call.stats.blocks = 1
         /\ call.stats.skipped = 0 /\ call.stats.errors = 0

\* C29 happens: index() of a single file with one block on an empty index
\* returned.
C29_Witness ==
  /\ call.op = "index" /\ ~call.raised
  /\ Cardinality(DOMAIN call.files) = 1
  /\ BlocksOf(call.files, Keys(DOMAIN call.files)) = 1
  /\ call.before.manifest_file = NoManifest
  /\ call.before.vectors = <<>>
  /\ call.stats.blocks = 1
  /\ Cardinality(DOMAIN vectors) = 1

\* C30: after update(files) returned with no extraction error,
\* needs_update(files) on the same file set is 0 and every path of the
\* manifest is a path of files: a second update(files) is the no-op.
C30_UpdateConverges ==
  (call.op = "update" /\ ~call.raised /\ Errors(call.stats) = 0) =>
    /\ NeedsUpdate(manifest_file, call.files) = 0
    /\ DOMAIN Manifest(manifest_file) \subseteq DOMAIN call.files
    /\ Update(Run(0), call.files).stats = NothingStale(call.files)

(***************************************************************************)
(* Two runs against one root.  Each run is index() or update() in a        *)
(* process of its own, taken one step at a time: a step is one read or     *)
(* write of the manifest document, or the handling of one file or one      *)
(* batch with its db.delete or db.set.  Nothing serializes the steps of    *)
(* the two runs; no step fails.  While the runs are under way, call.args   *)
(* holds both runs with their locals, and whether a run took a step while  *)
(* the other was under way.                                                *)
(***************************************************************************)

\* The file sets of the runs: files with one block and files with two.
RaceFileSets == UNION {[S -> {1, 2}] : S \in SUBSET Paths}

\* The roots the runs start on: empty, or as an index() of one file or of
\* two files left it.
RaceSeeds == {<<>>, (1 :> 1), (1 :> 1) @@ (2 :> 2)}

\* The locals of a run that has not started.
NewRun(kind, files) ==
  [kind |-> kind, files |-> files, pc |-> "start", db_open |-> FALSE,
   manifest |-> <<>>, gone |-> <<>>, deleted_count |-> 0, todo |-> <<>>,
   all_blocks |-> <<>>, files_to_update |-> <<>>, i |-> 0, stats |-> ZeroStats]

\* The disk as a step of run r sees it, through the instance of r.
Disk(r) ==
  [manifest_file |-> manifest_file, vectors |-> vectors, index_dir |-> index_dir,
   db_open |-> r.db_open, trace |-> <<>>, fuel |-> 0, raised |-> FALSE]

Racing == call.op = "runs"
UnderWay(r) == r.pc \notin {"start", "done"}

\* Run w takes a step that leaves the disk as m has it and its locals as r.
Step(w, m, r) ==
  /\ manifest_file' = m.manifest_file
  /\ vectors' = m.vectors
  /\ index_dir' = m.index_dir
  /\ UNCHANGED db_open
  /\ call' = [call EXCEPT
                !.args.runs[w] = r,
                !.args.overlapped = @ \/ UnderWay(call.args.runs[3 - w])]

StartRuns ==
  /\ Idle
  /\ \E k1, k2 \in Ops, f1, f2 \in RaceFileSets :
       call' = [NoCall EXCEPT
                  !.op = "runs", !.before = Before,
                  !.args = [runs |-> <<NewRun(k1, f1), NewRun(k2, f2)>>,
                            overlapped |-> FALSE]]
  /\ UNCHANGED <<manifest_file, vectors, index_dir, db_open>>

\* update(), line 276: get_stale_files reads the manifest.
RunChecksStale(w) ==
  LET r == call.args.runs[w]
      st == GetStaleFiles(manifest_file, r.files)
      changed_files == [p \in Range(st.changed) \cap DOMAIN r.files |-> r.files[p]]
  IN /\ Racing /\ r.kind = "update" /\ r.pc = "start"
     /\ Step(w, Disk(r),
             [r EXCEPT !.gone = st.deleted, !.files = changed_files,
                       !.pc = IF st.changed = <<>> /\ st.deleted = <<>>
                              THEN "done" ELSE "reload"])

\* update(), lines 281-282: the store is opened and the manifest read again.
RunReloads(w) ==
  LET r == call.args.runs[w]
      m1 == EnsureDb(Disk(r))
  IN /\ Racing /\ r.pc = "reload"
     /\ Step(w, m1,
             [r EXCEPT !.db_open = TRUE,
                       !.manifest = LoadManifest(m1.manifest_file).files,
                       !.pc = IF r.gone = <<>> THEN "begin" ELSE "deleting"])

\* update(), lines 287-293: one deleted file.
RunDeletes(w) ==
  LET r == call.args.runs[w]
      d == DeleteFiles([m |-> Disk(r), manifest |-> r.manifest,
                        deleted_count |-> r.deleted_count],
                       <<Head(r.gone)>>)
  IN /\ Racing /\ r.pc = "deleting"
     /\ Step(w, d.m,
             [r EXCEPT !.manifest = d.manifest, !.deleted_count = d.deleted_count,
                       !.gone = Tail(@),
                       !.pc = IF Tail(r.gone) = <<>> THEN "saving" ELSE "deleting"])

\* update(), line 294: the manifest is written after the deletions.
RunSavesDeletions(w) ==
  LET r == call.args.runs[w]
  IN /\ Racing /\ r.pc = "saving"
     /\ Step(w, SaveManifest(Disk(r), r.manifest), [r EXCEPT !.pc = "begin"])

\* index(), lines 94-95: the store is opened and the manifest read.
RunBegins(w) ==
  LET r == call.args.runs[w]
      m1 == EnsureDb(Disk(r))
  IN /\ Racing
     /\ \/ r.kind = "index" /\ r.pc = "start"
        \/ r.pc = "begin"
     /\ Step(w, m1,
             [r EXCEPT !.db_open = TRUE,
                       !.manifest = LoadManifest(m1.manifest_file).files,
                       !.todo = Keys(DOMAIN r.files),
                       !.pc = IF DOMAIN r.files = {} THEN "done" ELSE "scan"])

\* index(), lines 103-138: one file of the loop.
RunScans(w) ==
  LET r == call.args.runs[w]
      s == ScanFiles([m |-> Disk(r), all_blocks |-> r.all_blocks,
                      files_to_update |-> r.files_to_update, stats |-> r.stats],
                     r.manifest, r.files, <<Head(r.todo)>>)
  IN /\ Racing /\ r.pc = "scan"
     /\ Step(w, s.m,
             [r EXCEPT !.all_blocks = s.all_blocks,
                       !.files_to_update = s.files_to_update,
                       !.stats = s.stats, !.todo = Tail(@),
                       !.pc = IF Tail(r.todo) # <<>> THEN "scan"
                              ELSE IF NothingStaged(s.all_blocks) THEN "done"
                              ELSE "store"])

\* index(), lines 145-174: one batch.
RunStores(w) ==
  LET r == call.args.runs[w]
      upto == Min(r.i + BatchSize, Len(r.all_blocks))
      s == EmbedAndStore([m |-> Disk(r), all_blocks |-> r.all_blocks,
                          files_to_update |-> r.files_to_update, stats |-> r.stats],
                         SubSeq(r.all_blocks, 1, upto), r.i)
  IN /\ Racing /\ r.pc = "store"
     /\ Step(w, s.m,
             [r EXCEPT !.stats = s.stats, !.i = upto,
                       !.pc = IF upto >= Len(r.all_blocks) THEN "save" ELSE "store"])

\* index(), lines 177-183: the pending entries are merged into the manifest
\* the run read, and the manifest is written.
RunSaves(w) ==
  LET r == call.args.runs[w]
  IN /\ Racing /\ r.pc = "save"
     /\ Step(w, SaveManifest(Disk(r), MergeEntries(r.manifest, r.files_to_update)),
             [r EXCEPT !.pc = "done"])

InitRace ==
  /\ \E files \in RaceSeeds :
       LET m == Index([manifest_file |-> NoManifest, vectors |-> <<>>,
                       index_dir |-> FALSE, db_open |-> FALSE, trace |-> <<>>,
                       fuel |-> 0, raised |-> FALSE], files).m
       IN /\ manifest_file = m.manifest_file
          /\ vectors = m.vectors
          /\ index_dir = m.index_dir
  /\ db_open = FALSE
  /\ call = NoCall

NextRace ==
  \/ StartRuns
  \/ \E w \in {1, 2} : RunChecksStale(w)
  \/ \E w \in {1, 2} : RunReloads(w)
  \/ \E w \in {1, 2} : RunDeletes(w)
  \/ \E w \in {1, 2} : RunSavesDeletions(w)
  \/ \E w \in {1, 2} : RunBegins(w)
  \/ \E w \in {1, 2} : RunScans(w)
  \/ \E w \in {1, 2} : RunStores(w)
  \/ \E w \in {1, 2} : RunSaves(w)

SpecRace == InitRace /\ [][NextRace]_vars

\* Both runs have ended.
BothDone == Racing /\ \A w \in {1, 2} : call.args.runs[w].pc = "done"

\* The paths with a vector in the store that the manifest does not list
\* under them: the manifest has no entry for the path, or a stale one.
Unlisted ==
  {p \in Paths :
     ~(StoredFrom(vectors, p)
         \subseteq Range(EntryBlocks(Manifest(manifest_file), p)))}

\* C21: when two index() or update() runs against one root have ended and
\* neither took a step while the other was under way, no path has vectors
\* in the store with no manifest entry or a stale one.  (That two runs whose
\* steps interleave do end in such a state is C21_Witness.)
C21_SerializedRunsLoseNoEntry ==
  (BothDone /\ ~call.args.overlapped) => Unlisted = {}

\* C21 happens: two interleaved runs have ended, both wrote the manifest,
\* and a path whose vectors a run stored has no entry in the manifest the
\* other run saved last.
C21_Witness ==
  /\ BothDone /\ call.args.overlapped
  /\ \A w \in {1, 2} : call.args.runs[w].stats.blocks > 0
  /\ \E p \in Paths :
       /\ StoredFrom(vectors, p) # {}
       /\ p \notin DOMAIN Manifest(manifest_file)

\* The engine used by a caller that keeps its instance and whose manifest
\* is never damaged: index() and update() alone.
NextRuns == CallIndex \/ CallUpdate \/ Return

SpecRuns == Init /\ [][NextRuns]_vars

\* The semantic queries with the default options: what they do to the index
\* depends on the scanned tree and on --no-index alone.
SemanticInvocations ==
  {Invocation(TRUE, TRUE, "semantic", 0, files, no_index, MaxK, 0, 1) :
     files \in FileSets, no_index \in BOOLEAN}

SemanticQueryCommand ==
  /\ Idle
  /\ \E inv \in SemanticInvocations, failAt \in FailPoints :
       Ended("query", inv, Main(Run(failAt), inv))

\* The root as semantic queries alone use it.
NextQuery == SemanticQueryCommand \/ Return

SpecQuery == Init /\ [][NextQuery]_vars

\* The exact and regex queries: they read the tree and never the index.
GrepInvocations ==
  {Invocation(TRUE, TRUE, mode, hits, <<>>, FALSE, n, 0, 1) :
     mode \in {"exact", "regex"}, hits \in Ks, n \in Ks}

QueryCommand ==
  /\ Idle
  /\ \E inv \in SemanticInvocations \cup GrepInvocations, failAt \in FailPoints :
       Ended("query", inv, Main(Run(failAt), inv))

\* The root as queries, status requests and cleans use it.
NextCommands == QueryCommand \/ StatusCommand \/ CleanCommand \/ Return

SpecCommands == Init /\ [][NextCommands]_vars

(***************************************************************************)
(* Files of which the extractor returns a block without a name after a     *)
(* block that has one, next to the other files.                            *)
(***************************************************************************)

FileSetsWithMalformed ==
  UNION {[S -> Contents \cup {Malformed}] : S \in SUBSET Paths}

CallIndexWithMalformed ==
  /\ Idle /\ ~Stale
  /\ \E files \in FileSetsWithMalformed, failAt \in FailPoints :
       Finish("index", files, Index(Run(failAt), files))

NextMalformed == CallIndexWithMalformed \/ Return

SpecMalformed == Init /\ [][NextMalformed]_vars

\* The paths the latest call counted in errors: the visited paths whose
\* extraction raised or whose ids could not all be derived.
CountedInErrors ==
  {p \in DOMAIN call.files :
     /\ Visited(Manifest(call.before.manifest_file), call.files, p)
     /\ LET ex == Extract(p, call.files[p])
        IN ~ex.ok \/ Derivable(ex.blocks) # ex.blocks}

StoreRecreates == BOOLEAN

Wrote(trace) == Events(trace, {"set"}) # {}

\* index(files) on the outlived handle.  Nothing before the first db.set
\* looks at the directory (the manifest is absent, so no old block is
\* deleted): a store that brings its directory back on that write leaves
\* the run as if the directory had been there, when there was a write.
IndexAfterClear(m0, files, recreates) ==
  LET r == Index([m0 EXCEPT !.index_dir = TRUE], files)
  IN IF recreates
     THEN IF Wrote(r.m.trace) THEN r
          ELSE [r EXCEPT !.m.index_dir = FALSE]
     ELSE Index(m0, files)

CallIndexAfterClear ==
  /\ Idle /\ Stale
  /\ \E files \in FileSets, failAt \in FailPoints, recreates \in StoreRecreates :
       LET r == IndexAfterClear(Run(failAt), files, recreates)
       IN /\ manifest_file' = r.m.manifest_file
          /\ vectors' = r.m.vectors
          /\ index_dir' = r.m.index_dir
          /\ db_open' = r.m.db_open
          /\ call' = [op |-> "index", files |-> files,
                      args |-> [failAt |-> failAt, recreates |-> recreates],
                      before |-> Before, raised |-> r.m.raised,
                      stats |-> r.stats, result |-> r.stats,
                      trace |-> r.m.trace]

NextAfterClear == CallIndex \/ CallClear \/ CallIndexAfterClear \/ Return

SpecAfterClear == Init /\ [][NextAfterClear]_vars

\* index(files) of a new instance on a root that has no index directory,
\* stopped at the same effect.
OnFreshRoot(files, failAt) ==
  Index([manifest_file |-> NoManifest, vectors |-> <<>>, index_dir |-> FALSE,
         db_open |-> FALSE, trace |-> <<>>, fuel |-> failAt, raised |-> FALSE],
        files)

AfterClear == call.op = "index" /\ call.before.db_open /\ ~call.before.index_dir

Opened(trace) == \E i \in DOMAIN trace : trace[i].op = "open"

\* C32: index(files) on the instance that made clear() opens the store anew,
\* leaves the index directory in place and ends as index(files) does on a
\* fresh root: the same stats, the same outcome, the same manifest and
\* vectors; when it returned with blocks stored, is_indexed() is true.
C32_IndexAfterClearStartsAfresh ==
  AfterClear =>
    LET fresh == OnFreshRoot(call.files, call.args.failAt)
    IN /\ Opened(call.trace)
       /\ index_dir
       /\ call.raised = fresh.m.raised
       /\ call.stats = fresh.stats
       /\ manifest_file = fresh.m.manifest_file
       /\ vectors = fresh.m.vectors
       /\ (~call.raised /\ call.stats.blocks > 0) => IsIndexed(manifest_file)

====
